---- MODULE Spec2Model ----
(***************************************************************************)
(* Model of web/logs.go of dozzle: the three HTTP handlers downloadLogs,   *)
(* fetchLogsBetweenDates and streamLogs, together with the Event Generator *)
(* (package docker) they drive.  One request is served per behaviour.      *)
(* The handlers are translated from web/logs.go; the Event Generator is    *)
(* not part of the sources at hand and is modelled from section 4.3 of the *)
(* specification.                                                          *)
(***************************************************************************)
EXTENDS Integers, Sequences, FiniteSets

\* ------------------------------------------------------------------ bounds
\* number of log events one raw feed delivers at most
MaxEvents == 2
\* number of ticks of the 5 second ticker that reach the handler at most
MaxTicks == 1
\* capacity of the generator's events channel
EventsCap == 1
\* seconds of an idle live stream that are observed
MaxTime == 12

\* ------------------------------------------------------------------ state
VARIABLES
    endpoint,      \* handler serving the request: none / stream / range / download
    req,           \* the request: stdout and stderr flags, Last-Event-ID header, lastEventId query
    hpc,           \* position of the handler
    status,        \* HTTP status of the response, 0 while no header is written
    out,           \* what the handler wrote to the response, in order
    flushed,       \* length of the prefix of out that has been flushed
    logs,          \* server-side log (error level), in order
    openCalls,     \* feed-open calls made (ContainerLogs / ContainerLogsBetweenDates)
    openRes,       \* result of the feed-open call: none / ok / EOF / ERR
    feed,          \* raw feed: none / open / closed
    gpc,           \* position of the generator task, none while no generator exists
    pendingEv,     \* event the generator has read and not yet sent
    events,        \* content of the generator's events channel
    eventsClosed,  \* the events channel is closed
    errors,        \* content of the generator's errors channel
    sent,          \* events the generator sent on the events channel, in order
    gerr,          \* terminal condition the generator met: none / EOF / ERR / CANCELED
    ticker,        \* liveness ticker: none / running / stopped
    tickPending,   \* a tick is waiting in ticker.C
    pingRaced,     \* some ping was written while an event was waiting in the events channel
    ctxCancelled,  \* the request context is cancelled (client disconnected)
    now,           \* seconds elapsed since the request arrived
    pingTimes      \* the times at which the pings were written

vars == <<endpoint, req, hpc, status, out, flushed, logs, openCalls, openRes, feed,
          gpc, pendingEv, events, eventsClosed, errors, sent, gerr,
          ticker, tickPending, pingRaced, ctxCancelled, now, pingTimes>>

respVars == <<status, out, flushed, logs>>
genVars == <<gpc, pendingEv, events, eventsClosed, errors, sent, gerr>>
tickVars == <<ticker, tickPending, pingRaced>>
timeVars == <<now, pingTimes>>

\* ------------------------------------------------------------------ values
HeaderValues == {"", "100"}
QueryValues == {"", "200"}
NoEvent == [n |-> 0, ts |-> 0, enc |-> TRUE]
NoRequest == [stdout |-> FALSE, stderr |-> FALSE, header |-> "", query |-> ""]

\* an element of the response
Tok(k, ev, v) == [k |-> k, ev |-> ev, v |-> v]
\* http.Error(w, msg, code)
ErrorBody(code) == Tok("error", 0, code)
\* "event: container-stopped\ndata: end of stream\n\n"
StoppedFrame == Tok("stopped", 0, 0)
\* ":ping \n\n"
PingFrame == Tok("ping", 0, 0)

\* ------------------------------------------------------------------ pure parts of the handlers
\* stdTypes |= docker.STDOUT / docker.STDERR
StdTypes(so, se) == (IF so THEN {"stdout"} ELSE {}) \cup (IF se THEN {"stderr"} ELSE {})

\* docker.STDALL
STDALL == {"stdout", "stderr"}

EmptyMaskNever(stdTypes) == FALSE
\* if stdTypes == 0
EmptyMask(stdTypes) == stdTypes = {}

IgnoreLastEventId(header, query) == ""
HeaderFirst(header, query) == IF header # "" THEN header ELSE query
QueryOnly(header, query) == query
\* lastEventId := header; if len(query) > 0 { lastEventId = query }
ResolveLastEventId(header, query) == IF Len(query) > 0 THEN query ELSE header

OpenErrorStreams(err) == IF err = "EOF" THEN <<StoppedFrame, PingFrame>> ELSE <<ErrorBody(500)>>
\* streamLogs, ContainerLogs failed: the response written for err
OpenErrorOutput(err) == IF err = "EOF" THEN <<StoppedFrame>> ELSE <<ErrorBody(500)>>

EventFrameAlwaysId(e) ==
    (IF e.enc THEN <<Tok("data", e.n, 0)>> ELSE <<>>)
    \o (IF e.ts >= 0 THEN <<Tok("id", e.n, e.ts)>> ELSE <<>>)
    \o <<Tok("end", e.n, 0)>>
\* streamLogs: the lines written for one event received from g.Events
EventFrame(e) ==
    (IF e.enc THEN <<Tok("data", e.n, 0)>> ELSE <<>>)
    \o (IF e.ts > 0 THEN <<Tok("id", e.n, e.ts)>> ELSE <<>>)
    \o <<Tok("end", e.n, 0)>>

EncodeTwice(e) == IF e.enc THEN <<Tok("json", e.n, 0), Tok("json", e.n, 0)>> ELSE <<>>
\* fetchLogsBetweenDates: json.NewEncoder(w).Encode(event)
EncodeOutput(e) == IF e.enc THEN <<Tok("json", e.n, 0)>> ELSE <<>>

\* log.Errorf("json encoding error while streaming ...")
EncodeLog(e) == IF e.enc THEN <<>> ELSE <<"json encoding error">>

FlushMissesLastWrite(o) == IF o = <<>> THEN 0 ELSE Len(o) - 1
\* f.Flush(): everything written so far has left the buffer
Flush(o) == Len(o)

DrainBlocks(errs) == errs # <<>>
\* the select on g.Errors has a default case: it never waits
DrainReady(errs) == TRUE

DrainOutputAnyError(errs) == IF errs # <<>> THEN <<StoppedFrame>> ELSE <<>>
DrainOutputThenPing(errs) ==
    IF errs # <<>> /\ Head(errs) = "EOF" THEN <<StoppedFrame, PingFrame>> ELSE <<>>
\* what the handler writes for the value it found on g.Errors, if any
DrainOutput(errs) == IF errs # <<>> /\ Head(errs) = "EOF" THEN <<StoppedFrame>> ELSE <<>>

\* what the handler logs for the value it found on g.Errors, if any
DrainLog(errs) ==
    IF errs # <<>> /\ Head(errs) # "EOF" /\ Head(errs) # "CANCELED"
    THEN <<"unknown error">> ELSE <<>>

\* the implicit 200 of the first write, or of a return without a write
Implicit200(s) == IF s = 0 THEN 200 ELSE s

\* ------------------------------------------------------------------ initial state
Init ==
    /\ endpoint = "none"
    /\ req = NoRequest
    /\ hpc = "idle"
    /\ status = 0
    /\ out = <<>>
    /\ flushed = 0
    /\ logs = <<>>
    /\ openCalls = <<>>
    /\ openRes = "none"
    /\ feed = "none"
    /\ gpc = "none"
    /\ pendingEv = NoEvent
    /\ events = <<>>
    /\ eventsClosed = FALSE
    /\ errors = <<>>
    /\ sent = <<>>
    /\ gerr = "none"
    /\ ticker = "none"
    /\ tickPending = FALSE
    /\ pingRaced = FALSE
    /\ ctxCancelled = FALSE
    /\ now = 0
    /\ pingTimes = <<>>

\* http.Error(w, msg, code); return
Reject(code) ==
    /\ status' = code
    /\ out' = out \o <<ErrorBody(code)>>
    /\ hpc' = "done"
    /\ UNCHANGED <<flushed, logs, openCalls, openRes, feed, genVars, tickVars>>

\* docker.NewEventGenerator(reader, tty): the background task starts reading
NewEventGenerator ==
    /\ gpc' = "read"
    /\ UNCHANGED <<pendingEv, events, eventsClosed, errors, sent, gerr>>

\* ------------------------------------------------------------------ streamLogs
\* streamLogs from its entry to the first wait in the select of the loop
StreamLogsStart ==
    /\ hpc = "idle"
    /\ \E so \in BOOLEAN, se \in BOOLEAN, header \in HeaderValues, query \in QueryValues,
          isFlusher \in BOOLEAN, found \in BOOLEAN, res \in {"ok", "EOF", "ERR"} :
        /\ endpoint' = "stream"
        /\ req' = [stdout |-> so, stderr |-> se, header |-> header, query |-> query]
        /\ UNCHANGED ctxCancelled
        /\ IF EmptyMask(StdTypes(so, se)) THEN Reject(400)
           ELSE IF ~isFlusher THEN Reject(500)
           ELSE IF ~found THEN Reject(404)
           ELSE /\ openCalls' = Append(openCalls,
                      [fn |-> "ContainerLogs", pos |-> ResolveLastEventId(header, query),
                       mask |-> StdTypes(so, se)])
                /\ openRes' = res
                /\ IF res # "ok"
                   THEN /\ out' = out \o OpenErrorOutput(res)
                        /\ flushed' = IF res = "EOF" THEN Flush(out') ELSE flushed
                        /\ status' = IF res = "EOF" THEN 200 ELSE 500
                        /\ hpc' = "done"
                        /\ UNCHANGED <<logs, feed, genVars, tickVars>>
                   ELSE /\ feed' = "open"
                        /\ ticker' = "running"
                        /\ NewEventGenerator
                        /\ hpc' = "streaming"
                        /\ UNCHANGED <<respVars, tickPending, pingRaced>>
    /\ UNCHANGED timeVars

\* case event, ok := <-g.Events with ok: write the frame of the event and flush
StreamLogsEvent ==
    /\ hpc = "streaming"
    /\ events # <<>>
    /\ out' = out \o EventFrame(Head(events))
    /\ logs' = logs \o EncodeLog(Head(events))
    /\ flushed' = Flush(out')
    /\ status' = Implicit200(status)
    /\ events' = Tail(events)
    /\ UNCHANGED <<endpoint, req, hpc, openCalls, openRes, feed, gpc, pendingEv, eventsClosed,
                   errors, sent, gerr, tickVars, ctxCancelled>>
    /\ UNCHANGED timeVars

StreamLogsPingDropsEvent ==
    /\ hpc = "streaming"
    /\ tickPending
    /\ out' = Append(out, PingFrame)
    /\ flushed' = Flush(out')
    /\ status' = Implicit200(status)
    /\ tickPending' = FALSE
    /\ pingRaced' = (pingRaced \/ events # <<>>)
    /\ events' = IF events # <<>> THEN Tail(events) ELSE events
    /\ UNCHANGED <<endpoint, req, hpc, logs, openCalls, openRes, feed, gpc, pendingEv,
                   eventsClosed, errors, sent, gerr, ticker, ctxCancelled>>
    /\ pingTimes' = Append(pingTimes, now)
    /\ UNCHANGED now

\* case <-ticker.C: write the ping and flush
StreamLogsPing ==
    /\ hpc = "streaming"
    /\ tickPending
    /\ out' = Append(out, PingFrame)
    /\ flushed' = Flush(out')
    /\ status' = Implicit200(status)
    /\ tickPending' = FALSE
    /\ pingRaced' = (pingRaced \/ events # <<>>)
    /\ UNCHANGED <<endpoint, req, hpc, logs, openCalls, openRes, feed, genVars,
                   ticker, ctxCancelled>>
    /\ pingTimes' = Append(pingTimes, now)
    /\ UNCHANGED now

\* case event, ok := <-g.Events with !ok: break loop
StreamLogsEventsClosed ==
    /\ hpc = "streaming"
    /\ events = <<>>
    /\ eventsClosed
    /\ hpc' = "drain"
    /\ UNCHANGED <<endpoint, req, respVars, openCalls, openRes, feed, genVars, tickVars,
                   ctxCancelled>>
    /\ UNCHANGED timeVars

\* the select on g.Errors with a default case, then the return (defer ticker.Stop())
StreamLogsDrainErrors ==
    /\ hpc = "drain"
    /\ DrainReady(errors)
    /\ errors' = IF errors # <<>> THEN Tail(errors) ELSE errors
    /\ out' = out \o DrainOutput(errors)
    /\ flushed' = IF DrainOutput(errors) # <<>> THEN Flush(out') ELSE flushed
    /\ logs' = logs \o DrainLog(errors)
    /\ status' = Implicit200(status)
    /\ ticker' = "stopped"
    /\ hpc' = "done"
    /\ UNCHANGED <<endpoint, req, openCalls, openRes, feed, gpc, pendingEv, events,
                   eventsClosed, sent, gerr, tickPending, pingRaced, ctxCancelled>>
    /\ UNCHANGED timeVars

\* ticks that reached ticker.C so far: those answered with a ping and the one waiting
Ticks == Len(SelectSeq(out, LAMBDA t : t.k = "ping")) + (IF tickPending THEN 1 ELSE 0)

\* the runtime sends on ticker.C (capacity one); a tick that finds the channel
\* full is dropped and changes nothing
Tick ==
    /\ ticker = "running"
    /\ ~tickPending
    /\ Ticks < MaxTicks
    /\ tickPending' = TRUE
    /\ UNCHANGED <<endpoint, req, hpc, respVars, openCalls, openRes, feed, genVars,
                   ticker, pingRaced, ctxCancelled>>
    /\ UNCHANGED timeVars

\* the client disconnects: r.Context() is cancelled
ClientDisconnect ==
    /\ hpc \in {"streaming", "ranging"}
    /\ ~ctxCancelled
    /\ ctxCancelled' = TRUE
    /\ UNCHANGED <<endpoint, req, hpc, respVars, openCalls, openRes, feed, genVars, tickVars>>
    /\ UNCHANGED timeVars

\* ------------------------------------------------------------------ Event Generator
\* largest timestamp among the events of s, 0 when there is none
LastTimestamp(s) ==
    IF s = <<>> THEN 0
    ELSE CHOOSE t \in {s[i].ts : i \in 1..Len(s)} : \A i \in 1..Len(s) : s[i].ts <= t

\* the events the feed can deliver next: an event has no timestamp (0), the
\* timestamp of the event before it, or a later one; json.Marshal of it
\* succeeds or fails
NextEvents(s) ==
    {[n |-> Len(s) + 1, ts |-> t, enc |-> c] :
        t \in {0, LastTimestamp(s), LastTimestamp(s) + 1}, c \in BOOLEAN}

\* the resumption position of an event as the specification defines it: its
\* timestamp when it has one, otherwise the parser's counter (never zero)
Position(e) == IF e.ts > 0 THEN e.ts ELSE e.n

\* the terminal conditions a read of the feed can report: the feed was opened
\* with r.Context(), so its reads fail with context.Canceled once the client is gone
FeedEnds(cancelled) == {"EOF", "ERR"} \cup (IF cancelled THEN {"CANCELED"} ELSE {})

\* the task reads and parses one line of the feed
GenReadEvent ==
    /\ gpc = "read"
    /\ Len(sent) < MaxEvents
    /\ \E e \in NextEvents(sent) : pendingEv' = e
    /\ gpc' = "send"
    /\ UNCHANGED <<endpoint, req, hpc, respVars, openCalls, openRes, feed, events,
                   eventsClosed, errors, sent, gerr, tickVars, ctxCancelled>>
    /\ UNCHANGED timeVars

\* the task sends the event on events, waiting while the channel is full
GenSendEvent ==
    /\ gpc = "send"
    /\ Len(events) < EventsCap
    /\ events' = Append(events, pendingEv)
    /\ sent' = Append(sent, pendingEv)
    /\ pendingEv' = NoEvent
    /\ gpc' = "read"
    /\ UNCHANGED <<endpoint, req, hpc, respVars, openCalls, openRes, feed,
                   eventsClosed, errors, gerr, tickVars, ctxCancelled>>
    /\ UNCHANGED timeVars

\* the read reports end-of-stream or an error: the task releases the feed and closes events
GenCloseEvents ==
    /\ gpc = "read"
    /\ \E err \in FeedEnds(ctxCancelled) : gerr' = err
    /\ feed' = "closed"
    /\ eventsClosed' = TRUE
    /\ gpc' = "notify"
    /\ UNCHANGED <<endpoint, req, hpc, respVars, openCalls, openRes, pendingEv, events,
                   errors, sent, tickVars, ctxCancelled>>
    /\ UNCHANGED timeVars

\* then the task sends the terminal condition on errors (capacity one) and ends
GenSendError ==
    /\ gpc = "notify"
    /\ errors' = Append(errors, gerr)
    /\ gpc' = "done"
    /\ UNCHANGED <<endpoint, req, hpc, respVars, openCalls, openRes, feed, pendingEv, events,
                   eventsClosed, sent, gerr, tickVars, ctxCancelled>>
    /\ UNCHANGED timeVars

\* ------------------------------------------------------------------ fetchLogsBetweenDates
\* fetchLogsBetweenDates from its entry to the first wait in the select of the loop
FetchLogsStart ==
    /\ hpc = "idle"
    /\ \E so \in BOOLEAN, se \in BOOLEAN, found \in BOOLEAN, res \in {"ok", "ERR"} :
        /\ endpoint' = "range"
        /\ req' = [stdout |-> so, stderr |-> se, header |-> "", query |-> ""]
        /\ UNCHANGED ctxCancelled
        /\ IF EmptyMask(StdTypes(so, se)) THEN Reject(400)
           ELSE IF ~found THEN Reject(404)
           ELSE /\ openCalls' = Append(openCalls,
                      [fn |-> "ContainerLogsBetweenDates", pos |-> "",
                       mask |-> StdTypes(so, se)])
                /\ openRes' = res
                /\ IF res # "ok"
                   THEN /\ out' = out \o <<ErrorBody(500)>>
                        /\ status' = 500
                        /\ hpc' = "done"
                        /\ UNCHANGED <<flushed, logs, feed, genVars, tickVars>>
                   ELSE /\ feed' = "open"
                        /\ NewEventGenerator
                        /\ hpc' = "ranging"
                        /\ UNCHANGED <<respVars, tickVars>>
    /\ UNCHANGED timeVars

\* case event, ok := <-g.Events with ok: encode the event on the response
FetchLogsEvent ==
    /\ hpc = "ranging"
    /\ events # <<>>
    /\ out' = out \o EncodeOutput(Head(events))
    /\ logs' = logs \o EncodeLog(Head(events))
    /\ status' = IF EncodeOutput(Head(events)) # <<>> THEN Implicit200(status) ELSE status
    /\ events' = Tail(events)
    /\ UNCHANGED <<endpoint, req, hpc, flushed, openCalls, openRes, feed, gpc, pendingEv,
                   eventsClosed, errors, sent, gerr, tickVars, ctxCancelled>>
    /\ UNCHANGED timeVars

\* case event, ok := <-g.Events with !ok: break loop, and the handler returns
FetchLogsEventsClosed ==
    /\ hpc = "ranging"
    /\ events = <<>>
    /\ eventsClosed
    /\ status' = Implicit200(status)
    /\ hpc' = "done"
    /\ UNCHANGED <<endpoint, req, out, flushed, logs, openCalls, openRes, feed, genVars,
                   tickVars, ctxCancelled>>
    /\ UNCHANGED timeVars

\* ------------------------------------------------------------------ downloadLogs
\* the n chunks io.Copy / stdcopy.StdCopy write to the gzip writer
Copied(n) == [i \in 1..n |-> Tok("gzdata", i, 0)]

\* defer zw.Close(): a writer that wrote nothing yet writes the gzip header first
GzipClose(o) ==
    (IF \E i \in 1..Len(o) : o[i].k = "gzheader" THEN <<>> ELSE <<Tok("gzheader", 0, 0)>>)
    \o <<Tok("gztrailer", 0, 0)>>

\* downloadLogs, whole: the handler waits for nothing but the reads of the feed
DownloadLogs ==
    /\ hpc = "idle"
    /\ \E found \in BOOLEAN, res \in {"ok", "ERR"}, n \in 0..MaxEvents :
        /\ endpoint' = "download"
        /\ IF ~found THEN Reject(400)
           ELSE /\ openCalls' = Append(openCalls,
                      [fn |-> "ContainerLogsBetweenDates", pos |-> "", mask |-> STDALL])
                /\ openRes' = res
                /\ IF res # "ok"
                   THEN /\ out' = out \o <<ErrorBody(500)>> \o GzipClose(out)
                        /\ status' = 500
                        /\ UNCHANGED feed
                   ELSE /\ feed' = "open"
                        /\ out' = out \o (IF n > 0 THEN <<Tok("gzheader", 0, 0)>> ELSE <<>>)
                                      \o Copied(n)
                                      \o GzipClose(IF n > 0 THEN <<Tok("gzheader", 0, 0)>> ELSE <<>>)
                        /\ status' = 200
                /\ hpc' = "done"
                /\ UNCHANGED <<flushed, logs, genVars, tickVars>>
    /\ UNCHANGED <<req, ctxCancelled>>
    /\ UNCHANGED timeVars

\* ------------------------------------------------------------------ specification
Next ==
    \/ StreamLogsStart
    \/ StreamLogsEvent
    \/ StreamLogsPing
    \/ StreamLogsEventsClosed
    \/ StreamLogsDrainErrors
    \/ Tick
    \/ ClientDisconnect
    \/ GenReadEvent
    \/ GenSendEvent
    \/ GenCloseEvents
    \/ GenSendError
    \/ FetchLogsStart
    \/ FetchLogsEvent
    \/ FetchLogsEventsClosed
    \/ DownloadLogs

Spec == Init /\ [][Next]_vars

\* ------------------------------------------------------------------ idle live stream, timed
SlowTickPeriod == 2 * 5
\* time.NewTicker(5 * time.Second)
TickPeriod == 5

\* a tick of the ticker is due now and has not been sent on ticker.C yet; the
\* ticker is created when the handler starts, so it ticks at 5, 10, ... seconds
TickDue ==
    /\ ticker = "running"
    /\ now > 0
    /\ now % TickPeriod = 0
    /\ ~tickPending
    /\ \A i \in 1..Len(pingTimes) : pingTimes[i] # now

\* the runtime sends the tick that is due on ticker.C
TimedTick ==
    /\ TickDue
    /\ tickPending' = TRUE
    /\ UNCHANGED <<endpoint, req, hpc, respVars, openCalls, openRes, feed, genVars,
                   ticker, pingRaced, ctxCancelled, timeVars>>

\* a second passes on a live stream whose feed delivers nothing; the handler,
\* idle in its select, has answered every tick that arrived before time moves on
Advance ==
    /\ hpc = "streaming"
    /\ now < MaxTime
    /\ ~TickDue
    /\ ~tickPending
    /\ now' = now + 1
    /\ UNCHANGED <<endpoint, req, hpc, respVars, openCalls, openRes, feed, genVars,
                   tickVars, ctxCancelled, pingTimes>>

TimedNext ==
    \/ StreamLogsStart
    \/ TimedTick
    \/ StreamLogsPing
    \/ Advance

TimedSpec == Init /\ [][TimedNext]_vars

\* ------------------------------------------------------------------ reconnecting client
\* In this specification `sent` is the log the container writes from the first
\* connection on, `events` is what the feed of the current connection has yet to
\* deliver, and `out` is what the client received over both connections.

Digit == <<"0", "1", "2", "3", "4", "5", "6", "7", "8", "9">>

\* fmt.Fprintf(w, "id: %d\n", event.Timestamp): the decimal digits of n
FormatId(n) == IF n < 10 THEN Digit[n + 1] ELSE Digit[(n \div 10) + 1] \o Digit[(n % 10) + 1]

\* ContainerLogs reads the position back from the decimal string; a string that
\* is not a number is no position (0)
ParsePosition(str) ==
    IF \E n \in 0..99 : FormatId(n) = str
    THEN CHOOSE n \in 0..99 : FormatId(n) = str
    ELSE 0

\* the feed ContainerLogs opens at position pos: the whole log for the empty
\* position, else the events strictly after pos
FeedAfter(log, pos) ==
    IF pos = "" THEN log
    ELSE SelectSeq(log, LAMBDA e : e.ts > ParsePosition(pos))

\* the logs a container can write: sequences of at most n events
RECURSIVE LogsUpTo(_)
LogsUpTo(n) ==
    IF n = 0 THEN {<<>>}
    ELSE LogsUpTo(n - 1)
         \cup UNION {{Append(l, e) : e \in NextEvents(l)} :
                         l \in {k \in LogsUpTo(n - 1) : Len(k) = n - 1}}

\* the id lines of the frame the client received last
LastIdLines(o) == {i \in 1..Len(o) : o[i].k = "id" /\ o[i].ev = o[Len(o)].ev}

\* the client connects: streamLogs resolves the position and opens the feed there
Connect(header, query) ==
    /\ endpoint' = "stream"
    /\ req' = [stdout |-> TRUE, stderr |-> TRUE, header |-> header, query |-> query]
    /\ openCalls' = Append(openCalls,
           [fn |-> "ContainerLogs", pos |-> ResolveLastEventId(header, query),
            mask |-> StdTypes(TRUE, TRUE)])
    /\ openRes' = "ok"
    /\ events' = FeedAfter(sent, ResolveLastEventId(header, query))
    /\ hpc' = "streaming"
    /\ UNCHANGED <<respVars, feed, gpc, pendingEv, eventsClosed, errors, sent, gerr,
                   tickVars, ctxCancelled, timeVars>>

ResumeInit ==
    /\ sent \in LogsUpTo(MaxEvents)
    /\ endpoint = "none"
    /\ req = NoRequest
    /\ hpc = "idle"
    /\ status = 0
    /\ out = <<>>
    /\ flushed = 0
    /\ logs = <<>>
    /\ openCalls = <<>>
    /\ openRes = "none"
    /\ feed = "none"
    /\ gpc = "none"
    /\ pendingEv = NoEvent
    /\ events = <<>>
    /\ eventsClosed = FALSE
    /\ errors = <<>>
    /\ gerr = "none"
    /\ ticker = "none"
    /\ tickPending = FALSE
    /\ pingRaced = FALSE
    /\ ctxCancelled = FALSE
    /\ now = 0
    /\ pingTimes = <<>>

\* the first connection carries no position
FirstConnect ==
    /\ hpc = "idle"
    /\ Connect("", "")

\* the client loses the connection after a frame that carried an id line and
\* connects again with that id as Last-Event-ID header, as lastEventId query
\* parameter, or as both
Reconnect ==
    /\ hpc = "streaming"
    /\ Len(openCalls) = 1
    /\ out # <<>>
    /\ \E i \in LastIdLines(out) :
          \E header \in {"", FormatId(out[i].v)}, query \in {"", FormatId(out[i].v)} :
             /\ header # "" \/ query # ""
             /\ Connect(header, query)

ResumeNext ==
    \/ FirstConnect
    \/ StreamLogsEvent
    \/ Reconnect

ResumeSpec == ResumeInit /\ [][ResumeNext]_vars

\* ------------------------------------------------------------------ types
TypeOK ==
    /\ endpoint \in {"none", "stream", "range", "download"}
    /\ hpc \in {"idle", "streaming", "drain", "ranging", "done"}
    /\ status \in {0, 200, 400, 404, 500}
    /\ flushed \in 0..Len(out)
    /\ feed \in {"none", "open", "closed"}
    /\ gpc \in {"none", "read", "send", "notify", "done"}
    /\ Len(events) <= EventsCap
    /\ Len(errors) <= 1
    /\ Len(sent) <= MaxEvents
    /\ gerr \in {"none", "EOF", "ERR", "CANCELED"}
    /\ ticker \in {"none", "running", "stopped"}
    /\ Ticks \in 0..MaxTicks

\* ------------------------------------------------------------------ properties
IsEnd(t) == t.k = "end"
IsJson(t) == t.k = "json"
IsEncodable(e) == e.enc
EventNumbers(s) == [i \in 1..Len(s) |-> s[i].n]
TokenEvents(o) == [i \in 1..Len(o) |-> o[i].ev]
Written(k) == \E i \in 1..Len(out) : out[i].k = k
MaskIsEmpty == ~req.stdout /\ ~req.stderr

\* C1: on the stream and the range endpoint a request with neither stdout nor
\* stderr is answered with 400; no feed-open call is made and no generator starts.
C1_EmptyMaskRejected ==
    (endpoint \in {"stream", "range"} /\ MaskIsEmpty)
        => /\ status = 400
           /\ out = <<ErrorBody(400)>>
           /\ hpc = "done"
           /\ openCalls = <<>>
           /\ feed = "none"
           /\ gpc = "none"

C1_Witness ==
    /\ endpoint = "stream"
    /\ MaskIsEmpty
    /\ hpc = "done"
    /\ status = 400

\* C2: a live stream whose feed reached end-of-stream after STREAMING began has
\* the container-stopped frame written by the time the handler has returned.
C2_StoppedFrameOnEndOfStream ==
    (endpoint = "stream" /\ hpc = "done" /\ gerr = "EOF") => Written("stopped")

\* C3: a live stream whose feed-open call reports end-of-stream writes the
\* container-stopped frame and nothing else, flushes it and returns; no
\* generator and no ticker is started.
C3_StoppedContainer ==
    (endpoint = "stream" /\ openRes = "EOF")
        => /\ out = <<StoppedFrame>>
           /\ flushed = Len(out)
           /\ hpc = "done"
           /\ gpc = "none"
           /\ ticker = "none"
           /\ feed = "none"

C3_Witness ==
    /\ endpoint = "stream"
    /\ openRes = "EOF"
    /\ hpc = "done"
    /\ Written("stopped")

\* C4: on a live stream the event frames written, followed by the events still
\* waiting in the events channel, are the events the generator sent, in the same
\* order; once the loop is left every sent event has its frame.  Pings change
\* neither.
C4_FramesFollowEvents ==
    endpoint = "stream"
        => /\ TokenEvents(SelectSeq(out, IsEnd)) \o EventNumbers(events) = EventNumbers(sent)
           /\ hpc \in {"drain", "done"} => TokenEvents(SelectSeq(out, IsEnd)) = EventNumbers(sent)

C4_Witness ==
    /\ endpoint = "stream"
    /\ hpc = "done"
    /\ pingRaced
    /\ Len(sent) >= 2
    /\ \E i, j, k \in 1..Len(out) :
          i < j /\ j < k /\ out[i].k = "end" /\ out[j].k = "ping" /\ out[k].k = "end"

\* C5 as stated: a completed range query wrote one encoded unit for every event
\* received from the generator, in order, with status 200.
C5_OneUnitPerEvent ==
    (endpoint = "range" /\ openRes = "ok" /\ hpc = "done")
        => /\ out = [i \in 1..Len(sent) |-> Tok("json", sent[i].n, 0)]
           /\ status = 200

\* C5 amended: a range query writes one encoded unit for every received event
\* whose serialization succeeds, in generator order, and nothing else; it
\* completes with status 200 once events is closed.
C5_OneUnitPerEncodedEvent ==
    (endpoint = "range" /\ openRes = "ok")
        => /\ out = SelectSeq(out, IsJson)
           /\ TokenEvents(out) \o EventNumbers(SelectSeq(events, IsEncodable))
                 = EventNumbers(SelectSeq(sent, IsEncodable))
           /\ hpc = "done" => /\ status = 200
                              /\ eventsClosed
                              /\ TokenEvents(out) = EventNumbers(SelectSeq(sent, IsEncodable))

C5_Witness ==
    /\ endpoint = "range"
    /\ hpc = "done"
    /\ gerr = "EOF"
    /\ Len(sent) = 2
    /\ sent[1].enc /\ sent[2].enc
    /\ out = <<Tok("json", 1, 0), Tok("json", 2, 0)>>
    /\ status = 200

\* C6: in each handler a raw feed that was opened is released by the time the
\* handler has returned.
C6_FeedReleasedAtReturn ==
    (hpc = "done" /\ feed # "none") => feed = "closed"

\* C7: when the client disconnected during STREAMING and the handler has
\* returned, the generator task has terminated.
C7_NoGeneratorOutlivesHandler ==
    (endpoint = "stream" /\ hpc = "done" /\ ctxCancelled /\ gerr = "CANCELED") => gpc = "done"

\* C8: the position passed to ContainerLogs is the lastEventId query parameter
\* when it is non-empty, and the Last-Event-ID header only when the query
\* parameter is absent or empty.
C8_QueryTakesPrecedence ==
    (endpoint = "stream" /\ openCalls # <<>>)
        => /\ req.query # "" => openCalls[1].pos = req.query
           /\ req.query = "" => openCalls[1].pos = req.header

C8_Witness ==
    /\ endpoint = "stream"
    /\ openCalls # <<>>
    /\ req.header # ""
    /\ req.query # ""
    /\ openCalls[1].pos = req.query

\* C9 as stated: the feed is opened at the header's position when the header is
\* supplied, at the query parameter's only when the header is absent.
C9_HeaderPreferred ==
    (endpoint = "stream" /\ openCalls # <<>>)
        => openCalls[1].pos = (IF req.header # "" THEN req.header ELSE req.query)

\* C9 amended: the live-stream handler opens the feed once, at the query
\* parameter's position when that is non-empty, else at the header's position,
\* else at the empty position ("now").
C9_QueryPreferred ==
    (endpoint = "stream" /\ openCalls # <<>>)
        => /\ Len(openCalls) = 1
           /\ openCalls[1].fn = "ContainerLogs"
           /\ openCalls[1].pos = (IF req.query # "" THEN req.query
                                  ELSE IF req.header # "" THEN req.header ELSE "")

C9_Witness ==
    /\ endpoint = "stream"
    /\ hpc = "streaming"
    /\ feed = "open"
    /\ req.header = "100"
    /\ req.query = "200"
    /\ openCalls[1].pos = "200"

\* C10: an event whose serialization failed has nothing written for it (no data
\* line, no id line, no terminator, no encoded unit), and each such failure is
\* logged.
C10_FailedEventSkipped ==
    endpoint \in {"stream", "range"}
        => /\ \A i \in 1..Len(out) : out[i].ev > 0 => sent[out[i].ev].enc
           /\ Len(logs) >= Len(sent) - Len(events) - Len(SelectSeq(sent, IsEncodable))

\* C11: every event frame of a live stream (of an event that serializes) is a
\* data line, preceded by its id line when it has one, and closed by the blank
\* line, with nothing else between the first line of a frame and its terminator.
C11_IdLinePrecedesDataLine ==
    endpoint = "stream"
        => \A i \in 1..Len(out) :
              (out[i].ev > 0 /\ sent[out[i].ev].enc)
                 => /\ out[i].k = "id"
                          => i < Len(out) /\ out[i + 1].k = "data" /\ out[i + 1].ev = out[i].ev
                    /\ out[i].k = "data"
                          => i < Len(out) /\ out[i + 1].k = "end" /\ out[i + 1].ev = out[i].ev
                    /\ out[i].k = "end"
                          => i > 1 /\ out[i - 1].k = "data" /\ out[i - 1].ev = out[i].ev

\* C13: a download that failed (unknown container: 400, feed-open failure: 500)
\* has the error message as its whole response, without a byte of the archive.
C13_FailedDownloadHasNoArchive ==
    (endpoint = "download" /\ hpc = "done")
        => /\ openCalls = <<>> => status = 400
           /\ openRes = "ERR" => status = 500
           /\ status # 200 => out = <<ErrorBody(status)>>

\* C14: a range request whose feed failed with a transport error, at the open
\* or during a read, is answered with status 500 and never completes as a 200.
C14_TransportErrorIs500 ==
    (endpoint = "range" /\ hpc = "done" /\ (openRes = "ERR" \/ gerr = "ERR"))
        => status = 500

\* the lines written on a live stream for event number n
LinesOf(n, k) == {i \in 1..Len(out) : out[i].ev = n /\ out[i].k = k}

\* C16 as stated: the frame of an event has an id line exactly when the event's
\* position is non-zero, and the id line carries that position.
C16_IdIffPosition ==
    endpoint = "stream"
        => \A i \in 1..Len(out) :
              out[i].k = "end"
                 => /\ (LinesOf(out[i].ev, "id") # {}) <=> (Position(sent[out[i].ev]) # 0)
                    /\ \A j \in LinesOf(out[i].ev, "id") : out[j].v = Position(sent[out[i].ev])

\* C16 amended: the frame of an event has an id line exactly when the event's
\* timestamp is greater than zero, and the id line carries that timestamp; an
\* event without a timestamp gets no id line.
C16_IdIffTimestamp ==
    endpoint = "stream"
        => \A i \in 1..Len(out) :
              out[i].k = "end"
                 => /\ (LinesOf(out[i].ev, "id") # {}) <=> (sent[out[i].ev].ts > 0)
                    /\ Cardinality(LinesOf(out[i].ev, "id")) <= 1
                    /\ \A j \in LinesOf(out[i].ev, "id") :
                          j < i /\ out[j].v = sent[out[i].ev].ts

C16_Witness ==
    /\ endpoint = "stream"
    /\ Len(sent) = 2
    /\ sent[1].ts = 0
    /\ sent[2].ts > 0
    /\ LinesOf(1, "end") # {}
    /\ LinesOf(1, "id") = {}
    /\ LinesOf(2, "end") # {}
    /\ LinesOf(2, "id") # {}

\* the handler took the generator's terminal condition off the errors channel
Drained == hpc = "done" /\ gpc = "done" /\ errors = <<>>

\* C17: when the live-stream handler leaves the drain of errors it has written
\* the container-stopped frame if the value it found is the end-of-stream
\* sentinel and nothing otherwise; a cancellation, or no value, logs nothing;
\* any other error is logged and not written.
C17_OnlySentinelIsWritten ==
    [][(hpc = "drain" /\ hpc' = "done")
          => LET found == IF errors # <<>> THEN Head(errors) ELSE "none" IN
             /\ found = "EOF" => out' = Append(out, StoppedFrame) /\ logs' = logs
             /\ found = "CANCELED" => out' = out /\ logs' = logs
             /\ found = "none" => out' = out /\ logs' = logs
             /\ found = "ERR" => out' = out /\ logs' = Append(logs, "unknown error")]_vars

C17_Witness ==
    /\ endpoint = "stream"
    /\ Drained
    /\ gerr = "CANCELED"
    /\ ~Written("stopped")
    /\ \A i \in 1..Len(logs) : logs[i] # "unknown error"

\* C18: once events is closed neither handler waits for the errors channel: in
\* every state where events is closed and the handler has not returned, its next
\* step can be taken whatever the errors channel holds (each such step consumes
\* an event or moves the handler towards its return, so the handler returns).
C18_ReturnsWithoutWaitingForErrors ==
    /\ hpc = "drain" => ENABLED StreamLogsDrainErrors
    /\ (hpc = "streaming" /\ eventsClosed) => ENABLED (StreamLogsEvent \/ StreamLogsEventsClosed)
    /\ (hpc = "ranging" /\ eventsClosed) => ENABLED (FetchLogsEvent \/ FetchLogsEventsClosed)

C18_Witness ==
    /\ endpoint = "stream"
    /\ hpc = "done"
    /\ gpc = "notify"
    /\ errors = <<>>
    /\ ctxCancelled

\* C19: while the live-stream handler waits in the select of the loop, and once
\* it has left the loop or returned, everything it wrote has been flushed.
C19_WritesAreFlushed ==
    (endpoint = "stream" /\ openRes \in {"ok", "EOF"}) => flushed = Len(out)

C19_Witness ==
    /\ endpoint = "stream"
    /\ hpc = "streaming"
    /\ Written("ping")
    /\ Written("end")
    /\ flushed = Len(out)

\* C20: on a live stream the container-stopped frame is written at most once,
\* it is the last thing written, and the handler has returned.
C20_StoppedFrameIsLast ==
    endpoint = "stream"
        => \A i \in 1..Len(out) : out[i] = StoppedFrame => (i = Len(out) /\ hpc = "done")

C20_Witness ==
    /\ endpoint = "stream"
    /\ Drained
    /\ gerr = "EOF"
    /\ Len(out) >= 2
    /\ out[Len(out)] = StoppedFrame

\* the pings written from second a to second b, both included
PingsIn(a, b) == Cardinality({i \in 1..Len(pingTimes) : a <= pingTimes[i] /\ pingTimes[i] <= b})

\* C15 as stated: every interval of 6 seconds of an idle live stream that has
\* gone by contains exactly one ping.
C15_OnePingInAnySixSeconds ==
    hpc = "streaming"
        => \A a \in 0..MaxTime : a + 6 < now => PingsIn(a, a + 6) = 1

\* C15 amended: the first 6 seconds of an idle live stream contain exactly one
\* ping, and every interval of 6 seconds that has gone by contains at least one
\* ping and at most two.
C15_OnePingInFirstSixSeconds ==
    hpc = "streaming"
        => /\ now > 6 => PingsIn(0, 6) = 1
           /\ \A a \in 0..MaxTime : a + 6 < now => PingsIn(a, a + 6) \in {1, 2}

C15_Witness ==
    /\ hpc = "streaming"
    /\ now > 10
    /\ pingTimes = <<5, 10>>
    /\ PingsIn(0, 6) = 1
    /\ PingsIn(4, 10) = 2

\* the position the second connection was opened at
ResumePosition == ParsePosition(openCalls[2].pos)

\* the event delivered last before the reconnect is the only one at its
\* position, and every later event of the log has a greater position
LaterPositionsAreGreater ==
    \A i, j \in 1..Len(sent) :
        (i < j /\ sent[i].ts = ResumePosition) => sent[j].ts > ResumePosition

====
